---------------------------- MODULE Spec2Model ----------------------------
(***************************************************************************)
(* Model of the knowledge-base HTTP service (src/main.py) and of its       *)
(* vector-store wrapper (src/chroma_processing.py).                        *)
(*                                                                         *)
(* Three specifications are defined:                                       *)
(*   ChunkSpec  the text pipeline of upload_file (strip, remove_stopwords,  *)
(*              wrap) applied to every text over a small alphabet;          *)
(*   Spec       the endpoints, each handler one atomic action whose inputs  *)
(*              (path parameter, file, query) are drawn from small sets;    *)
(*   ConcSpec   the same handlers run as event-loop tasks: requests are     *)
(*              accepted, stay pending, and are run in any order.           *)
(*                                                                         *)
(* Texts are sequences of one-character strings.  Identifiers str(i) of    *)
(* stored chunks are modelled by the natural number i.                     *)
(***************************************************************************)
EXTENDS Integers, Sequences, FiniteSets, TLC

VARIABLES
    chroma,     \* the persistent store: existing collection name -> (id -> chunk)
    last,       \* the request served last, its response and the calls it made
    ingested,   \* per existing collection: the batches stored since it was created
    tasks,      \* ConcSpec: the requests accepted by the event loop
    order,      \* ConcSpec: the tasks in the order their handlers ran
    text,       \* ChunkSpec: the text extracted from the PDF
    chunks,     \* ChunkSpec: the result of the pipeline
    stage       \* ChunkSpec: "extracted" or "chunked"

vars == <<chroma, last, ingested, tasks, order, text, chunks, stage>>

---------------------------------------------------------------------------
(* Bounds of the model.                                                    *)

\* wrap(text, 1024) at src/main.py:108, scaled down so that texts longer
\* than one chunk can be enumerated.
Width == 6

\* longest extracted text enumerated by ChunkSpec
MaxLen == 7

---------------------------------------------------------------------------
(* Characters.                                                             *)

Letters == {"a", "b"}

Alphabet == Letters \cup {"-", " "}

\* str.isspace / textwrap._whitespace
IsWs(c) == c = " "

\* textwrap: letter = [^\d\W]
IsLetter(c) == c \in Letters

\* regex \w
IsWordChar(c) == c \in Letters

\* textwrap: word_punct = [\w!"'&.,?]
IsWordPunct(c) == IsWordChar(c)

\* the character at position i (1-based), "" outside the text
At(t, i) == IF i >= 1 /\ i <= Len(t) THEN t[i] ELSE ""

IsBlank(s) == \A i \in 1..Len(s) : IsWs(s[i])

Min(a, b) == IF a < b THEN a ELSE b

RECURSIVE Concat(_)
Concat(ss) == IF ss = <<>> THEN <<>> ELSE Head(ss) \o Concat(Tail(ss))

---------------------------------------------------------------------------
(* str.strip() and gensim's remove_stopwords.                              *)

RECURSIVE lstrip(_)
lstrip(t) == IF t # <<>> /\ IsWs(Head(t)) THEN lstrip(Tail(t)) ELSE t

RECURSIVE rstrip(_)
rstrip(t) ==
    IF t # <<>> /\ IsWs(t[Len(t)]) THEN rstrip(SubSeq(t, 1, Len(t) - 1)) ELSE t

\* text.strip()
strip(t) == rstrip(lstrip(t))

\* the words of gensim's STOPWORDS that can be spelled in Alphabet
STOPWORDS == { <<"a">> }

\* str.split(): the maximal runs of non-whitespace characters
RECURSIVE str_split(_, _)
str_split(t, word) ==
    IF t = <<>> THEN (IF word = <<>> THEN <<>> ELSE <<word>>)
    ELSE IF IsWs(Head(t))
         THEN (IF word = <<>> THEN <<>> ELSE <<word>>) \o str_split(Tail(t), <<>>)
         ELSE str_split(Tail(t), Append(word, Head(t)))

\* " ".join(words)
RECURSIVE str_join(_)
str_join(words) ==
    IF words = <<>> THEN <<>>
    ELSE IF Len(words) = 1 THEN Head(words)
    ELSE Head(words) \o <<" ">> \o str_join(Tail(words))

\* remove_stopwords(s) == " ".join(w for w in s.split() if w not in STOPWORDS)
remove_stopwords(s) ==
    str_join(SelectSeq(str_split(s, <<>>), LAMBDA w : w \notin STOPWORDS))

---------------------------------------------------------------------------
(* textwrap.wrap(text, width) with the defaults of TextWrapper:            *)
(* break_long_words, break_on_hyphens and drop_whitespace are True.        *)

\* the last position of the run of hyphens that starts at i
RECURSIVE HyphenRunEnd(_, _)
HyphenRunEnd(t, i) == IF At(t, i + 1) = "-" THEN HyphenRunEnd(t, i + 1) ELSE i

\* -{2,} (?=\w) at position i
EmDashAt(t, i) ==
    /\ At(t, i) = "-"
    /\ At(t, i + 1) = "-"
    /\ IsWordChar(At(t, HyphenRunEnd(t, i) + 1))

\* wordsep_re, third alternative: the word that starts at p, tried lazily
\* with its last plain character at e; the position where the match ends.
RECURSIVE WordEnd(_, _)
WordEnd(t, e) ==
    IF /\ At(t, e + 1) = "-"
       /\ \/ IsLetter(At(t, e - 1)) /\ IsLetter(At(t, e))
          \/ IsLetter(At(t, e - 2)) /\ At(t, e - 1) = "-" /\ IsLetter(At(t, e))
       /\ IsLetter(At(t, e + 2))
       /\ \/ IsLetter(At(t, e + 3))
          \/ At(t, e + 3) = "-" /\ IsLetter(At(t, e + 4))
    THEN e + 1                                      \* hyphenated word
    ELSE IF e + 1 > Len(t) \/ IsWs(At(t, e + 1))
    THEN e                                          \* end of word
    ELSE IF IsWordPunct(At(t, e)) /\ EmDashAt(t, e + 1)
    THEN e                                          \* word before an em-dash
    ELSE WordEnd(t, e + 1)

\* the last position of the run of whitespace that starts at i
RECURSIVE WsRunEnd(_, _)
WsRunEnd(t, i) == IF IsWs(At(t, i + 1)) THEN WsRunEnd(t, i + 1) ELSE i

\* wordsep_re: where the match that starts at p ends
wordsep_end(t, p) ==
    IF IsWs(t[p]) THEN WsRunEnd(t, p)
    ELSE IF IsWordPunct(At(t, p - 1)) /\ EmDashAt(t, p) THEN HyphenRunEnd(t, p)
    ELSE WordEnd(t, p)

\* TextWrapper._split: wordsep_re.split(text) without the empty strings
RECURSIVE split_from(_, _)
split_from(t, p) ==
    IF p > Len(t) THEN <<>>
    ELSE LET e == wordsep_end(t, p)
         IN  <<SubSeq(t, p, e)>> \o split_from(t, e + 1)

split_chunks(t) == split_from(t, 1)

\* the inner while loop of _wrap_chunks: the chunks that fit on the line
RECURSIVE fill_line(_, _, _, _)
fill_line(cs, cur_line, cur_len, width) ==
    IF cs # <<>> /\ cur_len + Len(Head(cs)) <= width
    THEN fill_line(Tail(cs), Append(cur_line, Head(cs)),
                   cur_len + Len(Head(cs)), width)
    ELSE [cur_line |-> cur_line, cur_len |-> cur_len, rest |-> cs]

\* TextWrapper._handle_long_word: how many characters of the chunk go on
\* the current line
handle_long_word(chunk, cur_len, width) ==
    LET space_left == width - cur_len
        hyphens == { i \in 1..space_left : chunk[i] = "-" }
        hyphen == IF hyphens = {} THEN 0
                  ELSE CHOOSE i \in hyphens : \A j \in hyphens : j <= i
    IN  IF /\ hyphen >= 2
           /\ \E i \in 1..(hyphen - 1) : chunk[i] # "-"
        THEN hyphen
        ELSE space_left

\* TextWrapper._wrap_chunks
RECURSIVE wrap_chunks(_, _, _)
wrap_chunks(cs, lines, width) ==
    IF cs = <<>> THEN lines
    ELSE
      LET cs1 == IF IsBlank(Head(cs)) /\ lines # <<>> THEN Tail(cs) ELSE cs
          f == fill_line(cs1, <<>>, 0, width)
          long == f.rest # <<>> /\ Len(Head(f.rest)) > width
          end == IF long THEN handle_long_word(Head(f.rest), f.cur_len, width)
                 ELSE 0
          line1 == IF long
                   THEN Append(f.cur_line, SubSeq(Head(f.rest), 1, end))
                   ELSE f.cur_line
          rest1 == IF long
                   THEN <<SubSeq(Head(f.rest), end + 1, Len(Head(f.rest)))>>
                        \o Tail(f.rest)
                   ELSE f.rest
          line2 == IF line1 # <<>> /\ IsBlank(line1[Len(line1)])
                   THEN SubSeq(line1, 1, Len(line1) - 1)
                   ELSE line1
      IN  wrap_chunks(rest1,
                      IF line2 # <<>> THEN Append(lines, Concat(line2)) ELSE lines,
                      width)

\* textwrap.wrap(text, width)
wrap(t, width) == wrap_chunks(split_chunks(t), <<>>, width)

\* src/main.py:105-106
normalize(t) == remove_stopwords(strip(t))

\* Fault model: the text cut every Width characters (text[i:i+Width])
\* instead of wrapped.
chunk_text_sliced(t) ==
    LET N == normalize(t)
        n == (Len(N) + Width - 1) \div Width
    IN  [k \in 1..n |-> SubSeq(N, (k - 1) * Width + 1, Min(k * Width, Len(N)))]

\* Fault model: only the chunks that are full are kept, the trailing
\* remainder is lost.
chunk_text_no_remainder(t) ==
    LET N == normalize(t)
    IN  [k \in 1..(Len(N) \div Width) |-> SubSeq(N, (k - 1) * Width + 1, k * Width)]

\* src/main.py:105-108
chunk_text(t) == wrap(normalize(t), Width)

---------------------------------------------------------------------------
(* Values exchanged with the collaborators.                                *)

\* top-K of the similarity search, src/chroma_processing.py:50
n_results == 2

\* a Python call that raised: the text of the exception
Raise(db, e) == [raised |-> TRUE, err |-> e, chroma |-> db, value |-> <<>>]

\* a Python call that returned v and left the store as db
Return(db, v) == [raised |-> FALSE, err |-> <<>>, chroma |-> db, value |-> v]

\* a response body {"message": <the parts, concatenated>}
Message(parts) == [key |-> "message", text |-> parts, names |-> {}]

\* what a handler did: the store after it, the body it returned, the calls
\* it made on its collaborators, the text of the exception it caught.
Handled(db, body, calls, err) ==
    [chroma |-> db, body |-> body, calls |-> calls, err |-> err]

EmptyCollection == [i \in {} |-> <<>>]

---------------------------------------------------------------------------
(* The chromadb client, as far as src/chroma_processing.py uses it.        *)

\* chromadb accepts collection names of 3 to 63 characters
ValidName(name) == Len(name) >= 3 /\ Len(name) <= 63

NotFound(name) == <<"Collection ", name, " does not exist.">>

\* Fault model: deleting a collection that does not exist is not an error.
delete_collection_silent(db, name) ==
    Return([n \in DOMAIN db \ {name} |-> db[n]], <<>>)

\* client.delete_collection(name)
delete_collection(db, name) ==
    IF name \in DOMAIN db
    THEN Return([n \in DOMAIN db \ {name} |-> db[n]], <<>>)
    ELSE Raise(db, NotFound(name))

\* Fault model: create_collection, which refuses a name that exists.
create_collection_strict(db, name) ==
    IF ~ValidName(name)
    THEN Raise(db, <<"Expected collection name of 3-63 characters, got ", name>>)
    ELSE IF name \in DOMAIN db
    THEN Raise(db, <<"Collection ", name, " already exists">>)
    ELSE Return([n \in DOMAIN db \cup {name} |->
                    IF n \in DOMAIN db THEN db[n] ELSE EmptyCollection], name)

\* client.get_or_create_collection(name, metadata)
get_or_create_collection(db, name) ==
    IF ~ValidName(name)
    THEN Raise(db, <<"Expected collection name of 3-63 characters, got ", name>>)
    ELSE IF name \in DOMAIN db
    THEN Return(db, name)
    ELSE Return([n \in DOMAIN db \cup {name} |->
                    IF n \in DOMAIN db THEN db[n] ELSE EmptyCollection], name)

\* Fault model: the collection is created when it is missing.
get_collection_creating(db, name) ==
    Return([n \in DOMAIN db \cup {name} |->
               IF n \in DOMAIN db THEN db[n] ELSE EmptyCollection], name)

\* client.get_collection(name)
get_collection(db, name) ==
    IF name \in DOMAIN db THEN Return(db, name) ELSE Raise(db, NotFound(name))

\* Fault model: upsert, which replaces the record of an id that exists.
collection_add_upsert(coll, documents, ids) ==
    [i \in DOMAIN coll \cup {ids[k] : k \in 1..Len(ids)} |->
        IF \E k \in 1..Len(ids) : ids[k] = i
        THEN documents[CHOOSE k \in 1..Len(ids) : ids[k] = i]
        ELSE coll[i]]

\* collection.add(documents, ids): an empty batch is rejected, and a record
\* whose id is already in the collection is ignored (add is not upsert).
collection_add(coll, documents, ids) ==
    [i \in DOMAIN coll \cup {ids[k] : k \in 1..Len(ids)} |->
        IF i \in DOMAIN coll THEN coll[i]
        ELSE documents[CHOOSE k \in 1..Len(ids) : ids[k] = i]]

\* collection.query(query_texts, n_results): the sets of ids the search may
\* return; the ranking is the store's, the number of hits is
\* min(n_results, count).
collection_query(coll, n) ==
    { H \in SUBSET (DOMAIN coll) :
        Cardinality(H) = Min(n, Cardinality(DOMAIN coll)) }

---------------------------------------------------------------------------
(* class ChromaProcessing, src/chroma_processing.py                        *)

ChromaProcessing_delete_knowledge_base(db, doc_id) == delete_collection(db, doc_id)

ChromaProcessing_add_new_knowledge_base(db, name) ==
    get_or_create_collection(db, name)

\* Fault model: the batch is written one chunk at a time and the writer is
\* cut off after the first chunk.
ChromaProcessing_add_first_chunk_only(db, kb, content) ==
    LET c == get_collection(db, kb)
    IN  IF c.raised THEN c
        ELSE IF content = <<>>
        THEN Raise(db, <<"Expected IDs to be a non-empty list, got []">>)
        ELSE Return([db EXCEPT ![kb] = collection_add(db[kb], <<content[1]>>, <<0>>)],
                    <<>>)

ChromaProcessing_add_document_to_knowledge_base(db, kb, content) ==
    LET c == get_collection(db, kb)
        ids == [k \in 1..Len(content) |-> k - 1]
    IN  IF c.raised THEN c
        ELSE IF ids = <<>>
        THEN Raise(db, <<"Expected IDs to be a non-empty list, got []">>)
        ELSE Return([db EXCEPT ![kb] = collection_add(db[kb], content, ids)], <<>>)

ChromaProcessing_list_knowledge_base(db) == Return(db, DOMAIN db)

\* hits: the ids the similarity search picks, one of collection_query
ChromaProcessing_retrieve_chunks(db, kb_id, content, hits) ==
    LET c == get_collection(db, kb_id)
    IN  IF c.raised THEN c
        ELSE Return(db, [i \in hits |-> db[kb_id][i]])

---------------------------------------------------------------------------
(* The endpoints, src/main.py.  Each handler is an operator from the store *)
(* and the request to Handled(...).                                        *)

\* texts extracted from uploaded PDFs: no chunk, one, two and three chunks
Documents ==
    { <<"a", " ", "a">>,
      <<" ", "b", "b", "b", " ">>,
      <<"b", "b", "b", "b", " ", "b", "b", "-", "b", "b">>,
      <<"a", "b", " ", "b", "a", " ", "a", " ", "b", "b", "b", "b", " ", "b", "a", "b">> }

\* the query strings of the model: one with a stop word, one without
Queries == { <<"a", " ", "b">>, <<"b", "b">> }

\* chunk_text on the documents and remove_stopwords on the queries of the
\* model, evaluated once
ChunkTable == [d \in Documents |-> chunk_text(d)]

StopwordTable == [q \in Queries |-> remove_stopwords(q)]

PDF == "application/pdf"

\* GET /status
status(db) ==
    Handled(db, [key |-> "status", text |-> <<"it works">>, names |-> {}], <<>>, <<>>)

\* GET /knowledge_bases/
list_knowledge_bases(db) ==
    LET r == ChromaProcessing_list_knowledge_base(db)
        calls == << [fn |-> "list_knowledge_base"] >>
    IN  IF r.raised
        THEN Handled(db, Message(<<"error occured ">> \o r.err), calls, r.err)
        ELSE Handled(db, [key |-> "list of knowledge bases", text |-> <<>>,
                          names |-> r.value], calls, <<>>)

\* DELETE /knowledge_base/{kb_id}
delete_knowledge_base(db, kb_id) ==
    LET r == ChromaProcessing_delete_knowledge_base(db, kb_id)
        calls == << [fn |-> "delete_knowledge_base", kb |-> kb_id] >>
    IN  IF r.raised
        THEN Handled(db, Message(<<"error occurred ">> \o r.err), calls, r.err)
        ELSE Handled(r.chroma, Message(<<kb_id, " deleted successfully">>),
                     calls, <<>>)

\* POST /create_knowledge_base/{kb_id}; the except branch returns a plain
\* string, not an f-string (src/main.py:79)
create_knowledge_base(db, kb_id) ==
    LET r == ChromaProcessing_add_new_knowledge_base(db, kb_id)
        calls == << [fn |-> "add_new_knowledge_base", kb |-> kb_id] >>
    IN  IF r.raised
        THEN Handled(db, Message(<<"error occured {e}">>), calls, r.err)
        ELSE Handled(r.chroma,
                     Message(<<"new knowledge base is successfully created">>),
                     calls, <<>>)

\* the try block of upload_file, src/main.py:98-115
process_pdf(db, kb_id, file) ==
    IF ~file.readable
    THEN Handled(db, Message(<<"something went wrong : ", "invalid pdf">>),
                 << [fn |-> "PdfReader"] >>, <<"invalid pdf">>)
    ELSE
      LET content == ChunkTable[file.text]
          r == ChromaProcessing_add_document_to_knowledge_base(db, kb_id, content)
          calls == << [fn |-> "PdfReader"],
                      [fn |-> "wrap"],
                      [fn |-> "add_document_to_knowledge_base",
                       kb |-> kb_id, content |-> content] >>
      IN  IF r.raised
          THEN Handled(db, Message(<<"something went wrong : ">> \o r.err),
                       calls, r.err)
          ELSE Handled(r.chroma,
                       Message(<<"pdf is successfully chunked and stored into ",
                                 kb_id>>),
                       calls, <<>>)

\* Fault model: the content type is not looked at.
upload_file_any_type(db, kb_id, file) == process_pdf(db, kb_id, file)

\* POST /add_document_to_knowledge_base/{kb_id}
upload_file(db, kb_id, file) ==
    IF file.content_type = PDF
    THEN process_pdf(db, kb_id, file)
    ELSE Handled(db, Message(<<"we support only pdfs">>), <<>>, <<>>)

\* Fault model: the query without stop words is also the prompt.
query_prompt_normalized(db, kb_id, q, oracle) ==
    LET query_without_stop_words == StopwordTable[q]
        r == ChromaProcessing_retrieve_chunks(db, kb_id,
                                              query_without_stop_words, oracle.hits)
        retrieve == [fn |-> "retrieve_chunks", kb |-> kb_id,
                     content |-> query_without_stop_words, n |-> n_results,
                     returned |-> r.value]
        generate == << [fn |-> "GenerativeModel",
                        system_instruction |->
                            <<"provided text = ", r.value, "using only the provided text">>],
                       [fn |-> "generate_content", prompt |-> query_without_stop_words,
                        returned |-> oracle.text] >>
    IN  IF r.raised
        THEN Handled(db,
                     Message(<<"I couldn't retrieve data from chromadb ">> \o r.err),
                     <<retrieve>>, r.err)
        ELSE IF ~oracle.ok
        THEN Handled(db,
                     Message(<<"I couldn't retrieve data from chromadb ",
                               oracle.text>>),
                     <<retrieve>> \o generate, <<oracle.text>>)
        ELSE Handled(db, [key |-> "result", text |-> <<oracle.text>>, names |-> {}],
                     <<retrieve>> \o generate, <<>>)

\* POST /query/{kb_id}; oracle: what the similarity search and the
\* generative model answer
query(db, kb_id, q, oracle) ==
    LET query_without_stop_words == StopwordTable[q]
        r == ChromaProcessing_retrieve_chunks(db, kb_id,
                                              query_without_stop_words, oracle.hits)
        retrieve == [fn |-> "retrieve_chunks", kb |-> kb_id,
                     content |-> query_without_stop_words, n |-> n_results,
                     returned |-> r.value]
        generate == << [fn |-> "GenerativeModel",
                        system_instruction |->
                            <<"provided text = ", r.value, "using only the provided text">>],
                       [fn |-> "generate_content", prompt |-> q,
                        returned |-> oracle.text] >>
    IN  IF r.raised
        THEN Handled(db,
                     Message(<<"I couldn't retrieve data from chromadb ">> \o r.err),
                     <<retrieve>>, r.err)
        ELSE IF ~oracle.ok
        THEN Handled(db,
                     Message(<<"I couldn't retrieve data from chromadb ",
                               oracle.text>>),
                     <<retrieve>> \o generate, <<oracle.text>>)
        ELSE Handled(db, [key |-> "result", text |-> <<oracle.text>>, names |-> {}],
                     <<retrieve>> \o generate, <<>>)

---------------------------------------------------------------------------
(* Requests and the inputs the model draws them from.                      *)

\* longest history of stored batches kept per collection
MaxIngest == 2

\* most requests accepted by the event loop in ConcSpec
MaxTasks == 3

\* path parameters: two valid collection names and one chromadb rejects
KbIds == {"kb1", "kb2", "k"}

NoFile == [content_type |-> "", readable |-> FALSE, text |-> <<>>]

\* uploads: a text file, a PDF sent under another content type, a PDF that
\* pypdf cannot read, readable PDFs
Files ==
    { [content_type |-> "text/plain", readable |-> FALSE, text |-> <<>>],
      [content_type |-> "application/octet-stream", readable |-> TRUE,
       text |-> <<" ", "b", "b", "b", " ">>],
      [content_type |-> PDF, readable |-> FALSE, text |-> <<>>] }
    \cup { [content_type |-> PDF, readable |-> TRUE, text |-> d] : d \in Documents }

Request(op, kb_id, file, q) == [op |-> op, kb_id |-> kb_id, file |-> file, query |-> q]

NoOracle == [hits |-> {}, ok |-> TRUE, text |-> ""]

\* the answers the collaborators may give to a query on kb_id
Oracles(db, kb_id) ==
    { [hits |-> H, ok |-> g[1], text |-> g[2]] :
        H \in (IF kb_id \in DOMAIN db THEN collection_query(db[kb_id], n_results)
               ELSE {{}}),
        g \in { <<TRUE, "generated text">>, <<FALSE, "generation failed">> } }

\* FastAPI's routing of a request to its handler
Dispatch(db, req, oracle) ==
    CASE req.op = "status" -> status(db)
      [] req.op = "list"   -> list_knowledge_bases(db)
      [] req.op = "delete" -> delete_knowledge_base(db, req.kb_id)
      [] req.op = "create" -> create_knowledge_base(db, req.kb_id)
      [] req.op = "upload" -> upload_file(db, req.kb_id, req.file)
      [] req.op = "query"  -> query(db, req.kb_id, req.query, oracle)

\* the batch a handler stored, read off the add call it made
StoredBatch(h) ==
    LET adds == SelectSeq(h.calls, LAMBDA c : c.fn = "add_document_to_knowledge_base")
    IN  IF h.err = <<>> /\ adds # <<>> THEN <<adds[1].content>> ELSE <<>>

\* One handler runs from its first line to its return: the handlers of
\* src/main.py contain no await.
Serve(req, oracle) ==
    \E h \in {Dispatch(chroma, req, oracle)} :
        /\ chroma' = h.chroma
        /\ last' = [req |-> req, body |-> h.body, calls |-> h.calls, err |-> h.err,
                    existed |-> req.kb_id \in DOMAIN chroma]
        /\ ingested' = [kb \in DOMAIN h.chroma |->
                          IF kb \notin DOMAIN chroma THEN <<>>
                          ELSE IF kb = req.kb_id THEN ingested[kb] \o StoredBatch(h)
                          ELSE ingested[kb]]

NoRequest == Request("none", "", NoFile, <<>>)

NoBody == [key |-> "none", text |-> <<>>, names |-> {}]

ApiInit ==
    /\ chroma = [kb \in {} |-> EmptyCollection]
    /\ ingested = [kb \in {} |-> <<>>]
    /\ last = [req |-> NoRequest, body |-> NoBody, calls |-> <<>>, err |-> <<>>,
               existed |-> FALSE]
    /\ tasks = <<>>
    /\ order = <<>>

ChunkIdle == text = <<>> /\ chunks = <<>> /\ stage = "idle"

---------------------------------------------------------------------------
(* Spec: the endpoints.                                                    *)

Init == ApiInit /\ ChunkIdle

Status ==
    /\ Serve(Request("status", "", NoFile, <<>>), NoOracle)
    /\ UNCHANGED <<tasks, order, text, chunks, stage>>

ListKnowledgeBases ==
    /\ Serve(Request("list", "", NoFile, <<>>), NoOracle)
    /\ UNCHANGED <<tasks, order, text, chunks, stage>>

DeleteKnowledgeBase ==
    /\ \E kb_id \in KbIds : Serve(Request("delete", kb_id, NoFile, <<>>), NoOracle)
    /\ UNCHANGED <<tasks, order, text, chunks, stage>>

CreateKnowledgeBase ==
    /\ \E kb_id \in KbIds : Serve(Request("create", kb_id, NoFile, <<>>), NoOracle)
    /\ UNCHANGED <<tasks, order, text, chunks, stage>>

UploadFile ==
    /\ \E kb_id \in KbIds, file \in Files :
          Serve(Request("upload", kb_id, file, <<>>), NoOracle)
    /\ \A kb \in DOMAIN ingested' : Len(ingested'[kb]) <= MaxIngest
    /\ UNCHANGED <<tasks, order, text, chunks, stage>>

Query ==
    /\ \E kb_id \in KbIds, q \in Queries :
          \E oracle \in Oracles(chroma, kb_id) :
              Serve(Request("query", kb_id, NoFile, q), oracle)
    /\ UNCHANGED <<tasks, order, text, chunks, stage>>

Next ==
    \/ Status
    \/ ListKnowledgeBases
    \/ DeleteKnowledgeBase
    \/ CreateKnowledgeBase
    \/ UploadFile
    \/ Query

Spec == Init /\ [][Next]_vars

---------------------------------------------------------------------------
(* ConcSpec: requests served concurrently.  The event loop holds one task  *)
(* per accepted request and runs the pending tasks in any order; a task,   *)
(* once started, runs its handler to the end.  The clients of this         *)
(* specification create and delete one collection and upload PDFs into it. *)

ConcRequests ==
    { Request("create", "kb1", NoFile, <<>>), Request("delete", "kb1", NoFile, <<>>) }
    \cup { Request("upload", "kb1",
                   [content_type |-> PDF, readable |-> TRUE, text |-> d], <<>>) :
           d \in Documents }

Accept ==
    /\ Len(tasks) < MaxTasks
    /\ \E req \in ConcRequests :
          tasks' = Append(tasks, [req |-> req, state |-> "pending", body |-> NoBody,
                                  existed |-> FALSE, accepted |-> 0])
    /\ UNCHANGED <<chroma, last, ingested, order, text, chunks, stage>>

\* accepted: how many requests the loop had accepted when the task ran
Run ==
    /\ \E t \in 1..Len(tasks) :
          /\ tasks[t].state = "pending"
          /\ Serve(tasks[t].req, NoOracle)
          /\ tasks' = [tasks EXCEPT ![t] =
                          [req |-> tasks[t].req, state |-> "done", body |-> last'.body,
                           existed |-> last'.existed, accepted |-> Len(tasks)]]
          /\ order' = Append(order, t)
    /\ UNCHANGED <<text, chunks, stage>>

ConcNext == Accept \/ Run

ConcSpec == Init /\ [][ConcNext]_vars

---------------------------------------------------------------------------
(* ChunkSpec: the text pipeline of upload_file, src/main.py:105-108, on    *)
(* every extracted text of at most MaxLen characters.                      *)

RECURSIVE TextsOfLen(_)
TextsOfLen(n) ==
    IF n = 0 THEN { <<>> }
    ELSE { Append(t, c) : t \in TextsOfLen(n - 1), c \in Alphabet }

Texts == UNION { TextsOfLen(n) : n \in 0..MaxLen }

ChunkInit ==
    /\ ApiInit
    /\ text \in Texts
    /\ chunks = <<>>
    /\ stage = "extracted"

\* text = text.strip(); text = remove_stopwords(text); chunks = wrap(text, 1024)
Chunking ==
    /\ stage = "extracted"
    /\ text' = normalize(text)
    /\ chunks' = chunk_text(text)
    /\ stage' = "chunked"
    /\ UNCHANGED <<chroma, last, ingested, tasks, order>>

ChunkNext == Chunking

ChunkSpec == ChunkInit /\ [][ChunkNext]_vars

---------------------------------------------------------------------------
(* Properties of the text pipeline (ChunkSpec).  In a state with           *)
(* stage = "chunked", text is the normalized text and chunks its chunks.   *)

\* the first position at or after q that is not whitespace
RECURSIVE SkipWs(_, _)
SkipWs(N, q) == IF IsWs(At(N, q)) THEN SkipWs(N, q + 1) ELSE q

\* cs are consecutive pieces of N from position p on, with nothing but
\* whitespace between them and after the last
RECURSIVE Aligned(_, _, _)
Aligned(N, cs, p) ==
    IF cs = <<>> THEN p > Len(N)
    ELSE LET q == p + Len(Head(cs))
         IN  /\ q - 1 <= Len(N)
             /\ SubSeq(N, p, q - 1) = Head(cs)
             /\ Aligned(N, Tail(cs), SkipWs(N, q))

\* the positions of N that follow a chunk other than the last
RECURSIVE Cuts(_, _, _)
Cuts(N, cs, p) ==
    IF Len(cs) <= 1 THEN {}
    ELSE LET q == p + Len(Head(cs))
         IN  {q} \cup Cuts(N, Tail(cs), SkipWs(N, q))

\* every window of Width characters of N holds a space
SpacePerWindow(N) ==
    \A i \in 1..(Len(N) - Width + 1) : \E j \in i..(i + Width - 1) : IsWs(N[j])

NonWs(N) == SelectSeq(N, LAMBDA c : ~IsWs(c))

\* C2 as claimed: for a normalized text with a space in every window of
\* Width characters, no chunk is longer than Width and every chunk boundary
\* falls at whitespace of the text, hyphenated words included.
C2_BoundariesAtWhitespace ==
    (stage = "chunked" /\ SpacePerWindow(text)) =>
        /\ \A k \in 1..Len(chunks) : Len(chunks[k]) <= Width
        /\ Aligned(text, chunks, 1)
        /\ \A q \in Cuts(text, chunks, 1) : IsWs(At(text, q))

\* C2 amended: for such a text no chunk is longer than Width, and every
\* chunk boundary falls at whitespace of the text, directly after a hyphen,
\* or directly before a double hyphen.
C2_BoundariesAtWhitespaceOrHyphen ==
    (stage = "chunked" /\ SpacePerWindow(text)) =>
        /\ \A k \in 1..Len(chunks) : Len(chunks[k]) <= Width
        /\ Aligned(text, chunks, 1)
        /\ \A q \in Cuts(text, chunks, 1) :
              \/ IsWs(At(text, q))
              \/ At(text, q - 1) = "-"
              \/ At(text, q) = "-" /\ At(text, q + 1) = "-"

\* a text with a space in every window was cut inside a hyphenated word
C2_Witness ==
    /\ stage = "chunked"
    /\ SpacePerWindow(text)
    /\ Len(text) > Width
    /\ \E q \in Cuts(text, chunks, 1) : ~IsWs(At(text, q)) /\ At(text, q - 1) = "-"

\* C10: the chunks are consecutive pieces of the normalized text separated
\* by whitespace only, so they hold its non-whitespace characters in order;
\* no chunk is empty, and an empty text gives no chunk.
C10_NothingLost ==
    stage = "chunked" =>
        /\ Aligned(text, chunks, 1)
        /\ NonWs(Concat(chunks)) = NonWs(text)
        /\ \A k \in 1..Len(chunks) : chunks[k] # <<>>
        /\ text = <<>> => chunks = <<>>

\* a text of several chunks that lost the whitespace between them
C10_Witness ==
    /\ stage = "chunked"
    /\ Len(chunks) >= 2
    /\ Len(Concat(chunks)) < Len(text)
    /\ \A q \in Cuts(text, chunks, 1) : IsWs(At(text, q))

---------------------------------------------------------------------------
(* Properties of the endpoints (Spec).  In Spec every step serves one      *)
(* request, and last' is that request with its response.                   *)

Success_create == Message(<<"new knowledge base is successfully created">>)

Success_delete(kb_id) == Message(<<kb_id, " deleted successfully">>)

Success_upload(kb_id) ==
    Message(<<"pdf is successfully chunked and stored into ", kb_id>>)

HasChunks(db, kb) == kb \in DOMAIN db /\ DOMAIN db[kb] # {}

\* C1: an upload whose content type is not application/pdf is answered
\* "we support only pdfs", calls no collaborator and leaves the store as it
\* was, whether the collection exists or not.
C1_NonPdfRejected ==
    [][ (last'.req.op = "upload" /\ last'.req.file.content_type # PDF) =>
            /\ last'.body = Message(<<"we support only pdfs">>)
            /\ last'.calls = <<>>
            /\ chroma' = chroma ]_vars

\* a PDF sent under another content type was refused on a collection that
\* holds chunks
C1_Witness ==
    /\ last.req.op = "upload"
    /\ last.req.file.content_type # PDF
    /\ last.req.file.readable
    /\ last.body = Message(<<"we support only pdfs">>)
    /\ HasChunks(chroma, last.req.kb_id)

\* C3: creating a collection that exists raises nothing, answers with the
\* message of a first creation and leaves the store as it was.
C3_CreateIdempotent ==
    [][ last'.req.op = "create" =>
            /\ last'.req.kb_id \in DOMAIN chroma =>
                  /\ last'.body = Success_create
                  /\ last'.err = <<>>
                  /\ chroma' = chroma
            /\ (last'.req.kb_id \notin DOMAIN chroma /\ last'.err = <<>>) =>
                  last'.body = Success_create ]_vars

\* a collection that holds chunks was created again
C3_Witness ==
    /\ last.req.op = "create"
    /\ last.existed
    /\ last.body = Success_create
    /\ HasChunks(chroma, last.req.kb_id)

\* C4: deleting a name that is no collection answers with a failure message
\* and leaves the store as it was; deleting a collection removes it and no
\* other.
C4_DeleteMissingFails ==
    [][ last'.req.op = "delete" =>
            LET kb == last'.req.kb_id
            IN  IF kb \in DOMAIN chroma
                THEN /\ chroma' = [n \in DOMAIN chroma \ {kb} |-> chroma[n]]
                     /\ last'.body = Success_delete(kb)
                ELSE /\ chroma' = chroma
                     /\ last'.body.key = "message"
                     /\ last'.body # Success_delete(kb)
                     /\ last'.err # <<>>
                     /\ Head(last'.body.text) = "error occurred " ]_vars

\* a deleted collection was deleted again while another collection held
\* chunks
C4_Witness ==
    /\ last.req.op = "delete"
    /\ ~last.existed
    /\ ValidName(last.req.kb_id)
    /\ last.err # <<>>
    /\ \E kb \in DOMAIN chroma : HasChunks(chroma, kb)

GenerativeCalls(calls) ==
    SelectSeq(calls, LAMBDA c : c.fn \in {"GenerativeModel", "generate_content"})

\* C5: a query or a PDF upload on a name that is no collection fails with
\* its message, stores nothing, does not create the collection, and a query
\* does not reach the generative model.
C5_CollectionMustExist ==
    [][ ( /\ last'.req.kb_id \notin DOMAIN chroma
          /\ \/ last'.req.op = "query"
             \/ last'.req.op = "upload" /\ last'.req.file.content_type = PDF ) =>
            /\ chroma' = chroma
            /\ last'.body.key = "message"
            /\ last'.req.op = "query" =>
                  /\ Head(last'.body.text) = "I couldn't retrieve data from chromadb "
                  /\ GenerativeCalls(last'.calls) = <<>>
            /\ last'.req.op = "upload" =>
                  Head(last'.body.text) = "something went wrong : " ]_vars

\* a readable PDF was uploaded to a collection that does not exist
C5_Witness ==
    /\ last.req.op = "upload"
    /\ last.req.file.content_type = PDF
    /\ last.req.file.readable
    /\ ChunkTable[last.req.file.text] # <<>>
    /\ ValidName(last.req.kb_id)
    /\ ~last.existed
    /\ last.req.kb_id \notin DOMAIN chroma
    /\ Head(last.body.text) = "something went wrong : "

\* msg holds the parts of err, in order and next to each other
Embeds(msg, err) ==
    \E i \in 1..(Len(msg) - Len(err) + 1) : SubSeq(msg, i, i + Len(err) - 1) = err

\* C6 as claimed: whenever a handler catches an exception, the message it
\* returns embeds the text of that exception.
C6_FailureEmbedsError ==
    last.err # <<>> => (last.body.key = "message" /\ Embeds(last.body.text, last.err))

\* C7: a query that succeeds sends the query without stop words to the top-2
\* search of the collection, puts what the search returned into the system
\* instruction, sends the query as received as the prompt, returns the
\* generated text as "result" and leaves the store as it was.
C7_QueryFlow ==
    [][ (last'.req.op = "query" /\ last'.body.key = "result") =>
            LET c == last'.calls
                kb == last'.req.kb_id
            IN  /\ chroma' = chroma
                /\ Len(c) = 3
                /\ c[1].fn = "retrieve_chunks"
                /\ c[1].kb = kb
                /\ c[1].content = remove_stopwords(last'.req.query)
                /\ c[1].n = 2
                /\ DOMAIN c[1].returned \subseteq DOMAIN chroma[kb]
                /\ Cardinality(DOMAIN c[1].returned)
                      = Min(2, Cardinality(DOMAIN chroma[kb]))
                /\ \A i \in DOMAIN c[1].returned : c[1].returned[i] = chroma[kb][i]
                /\ c[2].fn = "GenerativeModel"
                /\ c[2].system_instruction[2] = c[1].returned
                /\ c[3].fn = "generate_content"
                /\ c[3].prompt = last'.req.query
                /\ last'.body.text = <<c[3].returned>> ]_vars

\* a query with a stop word succeeded on a collection of three chunks
C7_Witness ==
    /\ last.req.op = "query"
    /\ last.body.key = "result"
    /\ remove_stopwords(last.req.query) # last.req.query
    /\ last.req.kb_id \in DOMAIN chroma
    /\ Cardinality(DOMAIN chroma[last.req.kb_id]) = 3
    /\ last.calls[3].prompt = last.req.query

\* the largest number of chunks of a batch
RECURSIVE MaxCount(_)
MaxCount(B) ==
    IF B = <<>> THEN 0
    ELSE LET m == MaxCount(Tail(B))
         IN  IF Len(Head(B)) > m THEN Len(Head(B)) ELSE m

\* the batches of B that have more than i chunks
Covering(B, i) == { k \in 1..Len(B) : Len(B[k]) > i }

Earliest(B, i) == CHOOSE k \in Covering(B, i) : \A j \in Covering(B, i) : k <= j

Latest(B, i) == CHOOSE k \in Covering(B, i) : \A j \in Covering(B, i) : j <= k

---------------------------------------------------------------------------
(* Properties of concurrent uploads (ConcSpec).                            *)

DoneUploads ==
    { t \in 1..Len(tasks) : tasks[t].state = "done" /\ tasks[t].req.op = "upload" }

\* both requests were pending at the same time: t was accepted before s ran
Overlap(s, t) == s < t /\ tasks[s].accepted >= t

\* the content left by storing batch X and then batch Y in an empty collection
SerialResult(X, Y) ==
    collection_add(collection_add(EmptyCollection, X, [k \in 1..Len(X) |-> k - 1]),
                   Y, [k \in 1..Len(Y) |-> k - 1])

\* C9: uploads into one collection that are served concurrently all succeed
\* (a document of at least one chunk, a collection that exists when the
\* handler runs); every stored batch is in the collection with all its
\* identifiers; below the smaller chunk count the collection never holds
\* chunks of both of two batches; and after exactly two batches the content
\* is that of one of the two serial orders.
C9_ConcurrentUploadsSerial ==
    /\ \A t \in DoneUploads :
          (tasks[t].existed /\ ChunkTable[tasks[t].req.file.text] # <<>>) =>
              tasks[t].body = Success_upload(tasks[t].req.kb_id)
    /\ \A kb \in DOMAIN chroma :
          LET B == ingested[kb]
              c == chroma[kb]
          IN  /\ \A k \in 1..Len(B) : 0..(Len(B[k]) - 1) \subseteq DOMAIN c
              /\ \A j, k \in 1..Len(B) :
                    ~ \E x, y \in 0..(Min(Len(B[j]), Len(B[k])) - 1) :
                          /\ c[x] = B[j][x + 1] /\ c[x] # B[k][x + 1]
                          /\ c[y] = B[k][y + 1] /\ c[y] # B[j][y + 1]
              /\ Len(B) = 2 =>
                    c \in {SerialResult(B[1], B[2]), SerialResult(B[2], B[1])}

\* two uploads of different documents were pending together, ran in the
\* reverse of the order of their arrival, and both succeeded
C9_Witness ==
    \E s, t \in DoneUploads :
        /\ Overlap(s, t)
        /\ \E i, j \in 1..Len(order) : i < j /\ order[i] = t /\ order[j] = s
        /\ tasks[s].req.file.text # tasks[t].req.file.text
        /\ tasks[s].body = Success_upload("kb1")
        /\ tasks[t].body = Success_upload("kb1")
        /\ Len(ChunkTable[tasks[s].req.file.text]) >= 2
        /\ Len(ChunkTable[tasks[t].req.file.text]) >= 2
        /\ Len(ingested["kb1"]) = 2

===========================================================================
